---- MODULE Spec2Model ----
(***************************************************************************)
(* Model of the jamaah detection overlay of MosquePrayerDisplay.js:        *)
(* the post-processing pipeline of detectObjects (Stage-1 filter, sort,    *)
(* applyNMS, calculateIoU) and the component's detection cycle             *)
(* (startDetection, the interval timer, the awaited model.detect call,     *)
(* stopDetection).                                                         *)
(*                                                                         *)
(* Numbers.  Pixel coordinates are integers.  A score is an integer number *)
(* of hundredths (0.65 is 65); a fraction of the source (0.4, 0.8, 0.15,   *)
(* 2.5, 0.3, 1.8) is kept as hundredths or tenths and every comparison is  *)
(* cross-multiplied, so it is exact.  A JavaScript quotient is a Number    *)
(* that may be infinite or NaN: Divide keeps that.                         *)
(***************************************************************************)
EXTENDS Integers, Sequences, FiniteSets, TLC

\* ------------------------------------------------------------ constants
MinScore == 65
MaxWidthPct == 40
MaxHeightPct == 80
MinWidth == 30
MinHeight == 50
MaxAspectTenths == 25
MinAspectTenths == 3
MaxAreaPct == 15
IouThresholdTenths == 3
LargeWidth == 200
LargeAspectTenths == 18

\* ------------------------------------------------------------ bounds
MaxDet == 3
MaxCycles == 3
MaxStarts == 2

\* ------------------------------------------------------------ inputs
\* A box is <<x, y, width, height>>.
BoxA == <<10, 10, 50, 100>>
BoxB == <<20, 10, 50, 100>>
BoxC == <<300, 10, 50, 100>>
BoxEdge == <<39, 10, 41, 100>>
BoxLarge == <<0, 200, 250, 125>>
BoxUnder == <<0, 200, 200, 125>>
BoxZeroW == <<10, 10, 0, 100>>
BoxZeroH == <<10, 10, 50, 0>>
BoxNeg == <<10, 10, -50, -100>>
BoxWide == <<0, 0, 260, 120>>
BoxTall == <<0, 0, 150, 400>>
BoxSmall == <<10, 10, 30, 100>>
BoxArea == <<0, 0, 250, 200>>
BoxThin == <<0, 0, 31, 110>>
BoxFlat == <<0, 0, 150, 60>>

Pred(c, s, b) == [class |-> c, score |-> s, bbox |-> b]

\* The predictions model.detect may return for one frame.
Palette ==
    {Pred("person", s, b) : s \in {80, 90}, b \in {BoxA, BoxB, BoxLarge, BoxUnder}}
    \cup {Pred("person", 70, BoxEdge), Pred("person", 90, BoxC),
          Pred("person", 65, BoxC), Pred("person", 64, BoxC),
          Pred("car", 95, BoxC)}
    \cup {Pred("person", 95, b) : b \in {BoxZeroW, BoxZeroH, BoxNeg, BoxWide,
                                         BoxTall, BoxSmall, BoxArea, BoxThin,
                                         BoxFlat}}

RECURSIVE SeqsUpTo(_, _)
SeqsUpTo(S, n) ==
    IF n = 0 THEN {<<>>}
    ELSE LET shorter == SeqsUpTo(S, n - 1)
         IN shorter \cup {Append(s, e) : s \in {t \in shorter : Len(t) = n - 1}, e \in S}

RawLists == SeqsUpTo(Palette, MaxDet)

\* video.videoWidth, video.videoHeight
Frames == {<<640, 480>>, <<320, 240>>}

\* ------------------------------------------------------------ arithmetic
\* width / height: a JavaScript Number.
Divide(n, d) ==
    IF d = 0
    THEN IF n = 0 THEN [k |-> "nan", n |-> 0, d |-> 1]
         ELSE [k |-> "inf", n |-> (IF n > 0 THEN 1 ELSE -1), d |-> 1]
    ELSE IF d > 0 THEN [k |-> "num", n |-> n, d |-> d]
         ELSE [k |-> "num", n |-> -n, d |-> -d]

\* q < t/10 and q > t/10 for a Number q: false whenever q is NaN.
LessTenths(q, t) ==
    CASE q.k = "nan" -> FALSE
      [] q.k = "inf" -> q.n < 0
      [] OTHER -> q.n * 10 < t * q.d

MoreTenths(q, t) ==
    CASE q.k = "nan" -> FALSE
      [] q.k = "inf" -> q.n > 0
      [] OTHER -> q.n * 10 > t * q.d

Max(a, b) == IF a >= b THEN a ELSE b
Min(a, b) == IF a <= b THEN a ELSE b

\* ------------------------------------------------------------ pipeline
\* Stage1Keep without its area condition.
Stage1KeepNoArea(pred, video) ==
    LET width == pred.bbox[3]
        height == pred.bbox[4]
        aspectRatio == Divide(width, height)
    IN IF pred.class # "person" \/ pred.score < MinScore THEN FALSE
       ELSE /\ width * 100 < video[1] * MaxWidthPct
            /\ height * 100 < video[2] * MaxHeightPct
            /\ width > MinWidth
            /\ height > MinHeight
            /\ LessTenths(aspectRatio, MaxAspectTenths)
            /\ MoreTenths(aspectRatio, MinAspectTenths)

\* The predicate of predictions.filter.
Stage1Keep(pred, video) ==
    LET width == pred.bbox[3]
        height == pred.bbox[4]
        aspectRatio == Divide(width, height)
        area == width * height
    IN IF pred.class # "person" \/ pred.score < MinScore THEN FALSE
       ELSE /\ width * 100 < video[1] * MaxWidthPct
            /\ height * 100 < video[2] * MaxHeightPct
            /\ width > MinWidth
            /\ height > MinHeight
            /\ LessTenths(aspectRatio, MaxAspectTenths)
            /\ MoreTenths(aspectRatio, MinAspectTenths)
            /\ area * 100 < video[1] * video[2] * MaxAreaPct

\* A filter without the pixel floors width > 30 and height > 50.
FilterNoFloor(predictions, video) ==
    SelectSeq(predictions, LAMBDA pred :
        LET width == pred.bbox[3]
            height == pred.bbox[4]
            aspectRatio == Divide(width, height)
        IN /\ pred.class = "person"
           /\ pred.score >= MinScore
           /\ width * 100 < video[1] * MaxWidthPct
           /\ height * 100 < video[2] * MaxHeightPct
           /\ LessTenths(aspectRatio, MaxAspectTenths)
           /\ MoreTenths(aspectRatio, MinAspectTenths)
           /\ width * height * 100 < video[1] * video[2] * MaxAreaPct)

\* let jamaah = predictions.filter(...)
Stage1Filter(predictions, video) ==
    SelectSeq(predictions, LAMBDA p : Stage1Keep(p, video))

\* A sort with the comparator turned round: ascending.
RECURSIVE InsertAscending(_, _)
InsertAscending(x, s) ==
    IF s = <<>> THEN <<x>>
    ELSE IF Head(s).score <= x.score THEN <<Head(s)>> \o InsertAscending(x, Tail(s))
         ELSE <<x>> \o s

\* Array.prototype.sort with (a, b) => b.score - a.score: stable, descending.
RECURSIVE InsertByScore(_, _)
InsertByScore(x, s) ==
    IF s = <<>> THEN <<x>>
    ELSE IF Head(s).score >= x.score THEN <<Head(s)>> \o InsertByScore(x, Tail(s))
         ELSE <<x>> \o s

RECURSIVE SortByScore(_)
SortByScore(s) ==
    IF s = <<>> THEN <<>>
    ELSE InsertByScore(s[Len(s)], SortByScore(SubSeq(s, 1, Len(s) - 1)))

\* calculateIoU: the quotient interArea / unionArea, 0 when unionArea <= 0.
CalculateIoU(boxA, boxB) ==
    LET x2A == boxA[1] + boxA[3]
        y2A == boxA[2] + boxA[4]
        x2B == boxB[1] + boxB[3]
        y2B == boxB[2] + boxB[4]
        xA == Max(boxA[1], boxB[1])
        yA == Max(boxA[2], boxB[2])
        xB == Min(x2A, x2B)
        yB == Min(y2A, y2B)
        interArea == Max(0, xB - xA) * Max(0, yB - yA)
        boxAArea == boxA[3] * boxA[4]
        boxBArea == boxB[3] * boxB[4]
        unionArea == boxAArea + boxBArea - interArea
    IN IF unionArea > 0 THEN Divide(interArea, unionArea) ELSE Divide(0, 1)

\* iou > iouThreshold
Overlaps(boxA, boxB) == MoreTenths(CalculateIoU(boxA, boxB), IouThresholdTenths)

\* The secondary check reading the height where the source reads the width.
TooLargeByHeight(det) ==
    /\ det.bbox[4] > LargeWidth
    /\ MoreTenths(Divide(det.bbox[3], det.bbox[4]), LargeAspectTenths)

\* width > 200 && aspectRatio > 1.8
TooLarge(det) ==
    /\ det.bbox[3] > LargeWidth
    /\ MoreTenths(Divide(det.bbox[3], det.bbox[4]), LargeAspectTenths)

\* A splice loop that stops at i > 0 and never looks at sorted[0].
SuppressSkipFirst(current, sorted) ==
    IF sorted = <<>> THEN <<>>
    ELSE <<Head(sorted)>>
         \o SelectSeq(Tail(sorted), LAMBDA d : ~Overlaps(current.bbox, d.bbox))

\* The splice loop: drops from sorted every detection overlapping current.
Suppress(current, sorted) ==
    SelectSeq(sorted, LAMBDA d : ~Overlaps(current.bbox, d.bbox))

\* An iteration that removes the overlapping detections before the secondary
\* check, so that a discarded box suppresses too.
NmsStepSuppressFirst(st) ==
    LET current == Head(st.sorted)
        rest == Suppress(current, Tail(st.sorted))
    IN IF TooLarge(current)
       THEN [sorted |-> rest, result |-> st.result]
       ELSE [sorted |-> rest, result |-> Append(st.result, current)]

\* One iteration of applyNMS's while loop.
NmsStep(st) ==
    LET current == Head(st.sorted)
        rest == Tail(st.sorted)
    IN IF TooLarge(current)
       THEN [sorted |-> rest, result |-> st.result]
       ELSE [sorted |-> Suppress(current, rest),
             result |-> Append(st.result, current)]

RECURSIVE NmsLoop(_)
NmsLoop(st) == IF st.sorted = <<>> THEN st.result ELSE NmsLoop(NmsStep(st))

ApplyNMS(detections) ==
    IF Len(detections) = 0 THEN <<>>
    ELSE NmsLoop([sorted |-> SortByScore(detections), result |-> <<>>])

\* What detectObjects makes of the predictions of one frame.
PostProcess(predictions, video) ==
    ApplyNMS(SortByScore(Stage1Filter(predictions, video)))

\* A drawing loop that numbers from index, not index + 1.
DrawBoxesFromZero(dets) ==
    [i \in 1..Len(dets) |-> [jamaahNumber |-> i - 1, bbox |-> dets[i].bbox]]

\* forEach((detection, index) => ...): one rectangle, label and badge per
\* detection, numbered index + 1; scaleX = scaleY = 1 once setupCanvas has
\* given the canvas the video's resolution.
DrawBoxes(dets) ==
    [i \in 1..Len(dets) |-> [jamaahNumber |-> i, bbox |-> dets[i].bbox]]

\* ------------------------------------------------------------ state
VARIABLES
    mounted,                \* the component is mounted (its refs are attached)
    modelRef,               \* modelRef.current is set (COCO-SSD is loaded)
    playing,                \* the play().then callback of the stream has run
    video,                  \* <<video.videoWidth, video.videoHeight>>
    detectionIntervalRef,   \* detectionIntervalRef.current: a timer id, 0 is null
    timers,                 \* the interval timers registered and not cleared
    starts,                 \* the timers created so far
    isDetecting,            \* detectionStats.isDetecting
    jamaahCount,            \* the jamaahCount state
    canvas,                 \* what is drawn on the overlay canvas
    frameCountRef,          \* frameCountRef.current
    fps,                    \* detectionStats.fps
    processTime,            \* detectionStats.processTime
    cycles,                 \* the invocations of detectObjects so far, each with
                            \* the predictions its pending model.detect holds
    pc,                     \* one invocation, step by step: where it is
    scene,                  \* the predictions its model.detect call holds
    predictions,            \* const predictions
    jamaah,                 \* let jamaah
    sorted,                 \* applyNMS's sorted
    result                  \* applyNMS's result

compVars == <<mounted, modelRef, playing, video, detectionIntervalRef, timers,
              starts, cycles>>
statVars == <<isDetecting, jamaahCount, canvas, frameCountRef, fps, processTime>>
stepVars == <<pc, scene, predictions, jamaah, sorted, result>>
vars == <<compVars, statVars, stepVars>>

\* Date.now() - startTime, in milliseconds: under and over the timer's period.
ProcessTimes == {20, 200}

\* The frames the component's cycles see.
Scenes ==
    { <<>>,
      <<Pred("person", 90, BoxC)>>,
      <<Pred("person", 80, BoxA), Pred("person", 90, BoxC)>>,
      <<Pred("person", 90, BoxLarge), Pred("person", 80, BoxUnder),
        Pred("person", 95, BoxNeg)>> }

NoCycle == [status |-> "none", predictions |-> <<>>]

\* ------------------------------------------------------------ detectObjects
\* The statements after the drawing loop: setJamaahCount, setDetectionStats,
\* frameCountRef.current++ and, once a second has passed, the FPS update.
\* A state setter of an unmounted component does nothing.
UpdateStats(dets, secondPassed, elapsed) ==
    /\ jamaahCount' = IF mounted THEN Len(dets) ELSE jamaahCount
    /\ processTime' = IF mounted THEN elapsed ELSE processTime
    /\ isDetecting' = IF mounted THEN TRUE ELSE isDetecting
    /\ IF secondPassed
       THEN /\ fps' = IF mounted THEN frameCountRef + 1 ELSE fps
            /\ frameCountRef' = 0
       ELSE /\ fps' = fps
            /\ frameCountRef' = frameCountRef + 1

\* The try block after the await, run to completion.
Finish(dets, secondPassed, elapsed) ==
    /\ canvas' = DrawBoxes(dets)
    /\ UpdateStats(dets, secondPassed, elapsed)

\* The timer fires and detectObjects returns at its guard.
TickSkip ==
    /\ \E t \in timers : TRUE
    /\ ~mounted \/ ~modelRef \/ video[1] = 0
    /\ UNCHANGED vars

\* The timer fires and detectObjects reaches await model.detect(video, ...):
\* the call holds the frame it was given.
TickDetect ==
    \E t \in timers, n \in 1..MaxCycles, s \in Scenes :
        /\ mounted /\ modelRef /\ video[1] # 0
        /\ cycles[n].status = "none"
        /\ \A m \in 1..(n - 1) : cycles[m].status # "none"
        /\ cycles' = [cycles EXCEPT ![n] =
                        [status |-> "inflight", predictions |-> s]]
        /\ UNCHANGED <<mounted, modelRef, playing, video, detectionIntervalRef,
                       timers, starts, statVars, stepVars>>

\* model.detect resolves: the rest of the try block runs.
DetectResolve ==
    \E n \in 1..MaxCycles, secondPassed \in BOOLEAN, elapsed \in ProcessTimes :
        /\ cycles[n].status = "inflight"
        /\ cycles' = [cycles EXCEPT ![n] = [status |-> "done", predictions |-> <<>>]]
        /\ Finish(PostProcess(cycles[n].predictions, video), secondPassed, elapsed)
        /\ UNCHANGED <<mounted, modelRef, playing, video, detectionIntervalRef,
                       timers, starts, stepVars>>

\* model.detect rejects: the catch block logs the error.
DetectReject ==
    \E n \in 1..MaxCycles :
        /\ cycles[n].status = "inflight"
        /\ cycles' = [cycles EXCEPT ![n] = [status |-> "failed", predictions |-> <<>>]]
        /\ UNCHANGED <<mounted, modelRef, playing, video, detectionIntervalRef,
                       timers, starts, statVars, stepVars>>

\* ------------------------------------------------------------ start, stop
\* startDetection without its first line, the return while a timer is held.
StartDetectionNoGuard ==
    /\ starts < MaxStarts
    /\ starts' = starts + 1
    /\ detectionIntervalRef' = starts + 1
    /\ timers' = timers \cup {starts + 1}
    /\ isDetecting' = IF mounted THEN TRUE ELSE isDetecting

\* startDetection; the caller leaves the other variables alone.
StartDetection ==
    IF detectionIntervalRef # 0
    THEN UNCHANGED <<detectionIntervalRef, timers, starts, isDetecting>>
    ELSE /\ starts < MaxStarts
         /\ starts' = starts + 1
         /\ detectionIntervalRef' = starts + 1
         /\ timers' = timers \cup {starts + 1}
         /\ isDetecting' = IF mounted THEN TRUE ELSE isDetecting

\* stopDetection.
StopDetection ==
    /\ timers' = timers \ {detectionIntervalRef}
    /\ detectionIntervalRef' = 0
    /\ canvas' = IF mounted THEN <<>> ELSE canvas
    /\ isDetecting' = IF mounted THEN FALSE ELSE isDetecting
    /\ jamaahCount' = IF mounted THEN 0 ELSE jamaahCount

\* loadModel: cocoSsd.load() resolves.
LoadModel ==
    /\ ~modelRef
    /\ modelRef' = TRUE
    /\ UNCHANGED <<mounted, playing, video, detectionIntervalRef, timers, starts,
                   cycles, statVars, stepVars>>

\* video.play() resolves: setupCanvas(); startDetection().
StreamReady ==
    /\ ~playing
    /\ playing' = TRUE
    /\ \E f \in Frames : video' = f
    /\ StartDetection
    /\ UNCHANGED <<mounted, modelRef, cycles, jamaahCount, canvas, frameCountRef,
                   fps, processTime, stepVars>>

\* The Start button, disabled while detectionStats.isDetecting.
StartButton ==
    /\ mounted /\ ~isDetecting
    /\ StartDetection
    /\ UNCHANGED <<mounted, modelRef, playing, video, cycles, jamaahCount, canvas,
                   frameCountRef, fps, processTime, stepVars>>

\* The Stop button, disabled unless detectionStats.isDetecting.
StopButton ==
    /\ mounted /\ isDetecting
    /\ StopDetection
    /\ UNCHANGED <<mounted, modelRef, playing, video, starts, cycles,
                   frameCountRef, fps, processTime, stepVars>>

\* The component unmounts: React detaches the refs, then the effects' cleanups
\* run: clearInterval(detectionIntervalRef.current), then stopDetection().
Unmount ==
    /\ mounted
    /\ mounted' = FALSE
    /\ timers' = timers \ {detectionIntervalRef}
    /\ detectionIntervalRef' = 0
    /\ UNCHANGED <<modelRef, playing, video, starts, cycles, statVars, stepVars>>

Init ==
    /\ mounted = TRUE
    /\ modelRef = FALSE
    /\ playing = FALSE
    /\ video = <<0, 0>>
    /\ detectionIntervalRef = 0
    /\ timers = {}
    /\ starts = 0
    /\ isDetecting = FALSE
    /\ jamaahCount = 0
    /\ canvas = <<>>
    /\ frameCountRef = 0
    /\ fps = 0
    /\ processTime = 0
    /\ cycles = [n \in 1..MaxCycles |-> NoCycle]
    /\ pc = "idle"
    /\ scene = <<>>
    /\ predictions = <<>>
    /\ jamaah = <<>>
    /\ sorted = <<>>
    /\ result = <<>>

Next ==
    \/ LoadModel
    \/ StreamReady
    \/ StartButton
    \/ StopButton
    \/ Unmount
    \/ TickSkip
    \/ TickDetect
    \/ DetectResolve
    \/ DetectReject

Spec == Init /\ [][Next]_vars

\* ------------------------------------------------------------ one invocation
\* detectObjects statement by statement, for one frame: the component is
\* detecting (startDetection has run), the model is loaded, the video plays.
InitPipe ==
    /\ mounted = TRUE
    /\ modelRef = TRUE
    /\ playing = TRUE
    /\ video \in Frames
    /\ detectionIntervalRef = 1
    /\ timers = {1}
    /\ starts = 1
    /\ isDetecting = TRUE
    /\ jamaahCount = 0
    /\ canvas = <<>>
    /\ frameCountRef = 0
    /\ fps = 0
    /\ processTime = 0
    /\ cycles = [n \in 1..MaxCycles |-> NoCycle]
    /\ pc = "detect"
    /\ scene \in RawLists
    /\ predictions = <<>>
    /\ jamaah = <<>>
    /\ sorted = <<>>
    /\ result = <<>>

\* const predictions = await model.detect(video, undefined, 0.4)
AwaitResolve ==
    /\ pc = "detect"
    /\ predictions' = scene
    /\ pc' = "filter"
    /\ UNCHANGED <<compVars, statVars, scene, jamaah, sorted, result>>

\* The awaited call rejects: control goes to the catch block.
AwaitReject ==
    /\ pc = "detect"
    /\ pc' = "error"
    /\ UNCHANGED <<compVars, statVars, scene, predictions, jamaah, sorted, result>>

\* let jamaah = predictions.filter(...)
FilterStep ==
    /\ pc = "filter"
    /\ jamaah' = Stage1Filter(predictions, video)
    /\ pc' = "sort"
    /\ UNCHANGED <<compVars, statVars, scene, predictions, sorted, result>>

\* jamaah.sort((a, b) => b.score - a.score)
SortStep ==
    /\ pc = "sort"
    /\ jamaah' = SortByScore(jamaah)
    /\ pc' = "nms"
    /\ UNCHANGED <<compVars, statVars, scene, predictions, sorted, result>>

\* applyNMS is entered: an empty list returns at once, else result and sorted
\* are set up.
NmsEnter ==
    /\ pc = "nms"
    /\ IF Len(jamaah) = 0
       THEN /\ pc' = "draw"
            /\ UNCHANGED <<jamaah, sorted, result>>
       ELSE /\ sorted' = SortByScore(jamaah)
            /\ result' = <<>>
            /\ pc' = "loop"
            /\ UNCHANGED jamaah
    /\ UNCHANGED <<compVars, statVars, scene, predictions>>

\* One iteration of while (sorted.length > 0).
NmsIterate ==
    /\ pc = "loop"
    /\ sorted # <<>>
    /\ LET st == NmsStep([sorted |-> sorted, result |-> result])
       IN /\ sorted' = st.sorted
          /\ result' = st.result
    /\ UNCHANGED <<compVars, statVars, pc, scene, predictions, jamaah>>

\* return result; jamaah = applyNMS(jamaah, 0.3)
NmsReturn ==
    /\ pc = "loop"
    /\ sorted = <<>>
    /\ jamaah' = result
    /\ pc' = "draw"
    /\ UNCHANGED <<compVars, statVars, scene, predictions, sorted, result>>

\* clearRect, the drawing loop and the state updates.
DrawStep ==
    /\ pc = "draw"
    /\ \E secondPassed \in BOOLEAN, elapsed \in ProcessTimes :
          Finish(jamaah, secondPassed, elapsed)
    /\ pc' = "done"
    /\ UNCHANGED <<compVars, scene, predictions, jamaah, sorted, result>>

NextPipe ==
    \/ AwaitResolve
    \/ AwaitReject
    \/ FilterStep
    \/ SortStep
    \/ NmsEnter
    \/ NmsIterate
    \/ NmsReturn
    \/ DrawStep

SpecPipe == InitPipe /\ [][NextPipe]_vars

\* The statement-by-statement run and PostProcess agree.
StepsAgree == pc \in {"draw", "done"} => jamaah = PostProcess(scene, video)

\* ------------------------------------------------------------ properties
\* The output of the invocation is in jamaah once applyNMS has returned.
OutputReady == pc \in {"draw", "done"}

Positions == 1..Len(jamaah)

\* The seven Stage-1 conditions, as the specification lists them.
PassesStage1(d, v) ==
    /\ d.class = "person"
    /\ d.score >= 65
    /\ 100 * d.bbox[3] < 40 * v[1]
    /\ 100 * d.bbox[4] < 80 * v[2]
    /\ d.bbox[3] > 30
    /\ d.bbox[4] > 50
    /\ 10 * d.bbox[3] > 3 * d.bbox[4]
    /\ 10 * d.bbox[3] < 25 * d.bbox[4]
    /\ 100 * d.bbox[3] * d.bbox[4] < 15 * v[1] * v[2]

\* width > 200 and width/height > 1.8, for a box of positive height.
LargeElongated(d) == d.bbox[3] > 200 /\ 10 * d.bbox[3] > 18 * d.bbox[4]

\* IoU > 0.3, with the IoU of calculateIoU.
IoUAbove(a, b) ==
    LET iou == CalculateIoU(a.bbox, b.bbox)
    IN iou.k = "num" /\ 10 * iou.n > 3 * iou.d

InOutput(d) == \E i \in Positions : jamaah[i] = d

\* C1: any two distinct detections of the output have IoU <= 0.3.
C1_OutputPairsIoU ==
    OutputReady =>
        \A i, j \in Positions : i # j => ~IoUAbove(jamaah[i], jamaah[j])

\* C1's case: a candidate was suppressed, and two detections that touch with
\* IoU exactly 0.3 are both kept.
C1_Witness ==
    /\ pc = "done"
    /\ Len(jamaah) >= 2
    /\ Len(jamaah) < Len(Stage1Filter(scene, video))
    /\ \E i, j \in Positions :
          /\ i # j
          /\ CalculateIoU(jamaah[i].bbox, jamaah[j].bbox).n * 10
               = 3 * CalculateIoU(jamaah[i].bbox, jamaah[j].bbox).d

\* C3: every detection of the output is a raw detection that passes all the
\* Stage-1 conditions, so a raw detection failing one is never in the output.
C3_OutputPassesStage1 ==
    OutputReady =>
        \A i \in Positions :
            /\ \E k \in 1..Len(scene) : scene[k] = jamaah[i]
            /\ PassesStage1(jamaah[i], video)

\* C3's case: the frame holds a detection of score 0.95 that fails a condition
\* and one that passes; only the second is in the output.
C3_Witness ==
    /\ pc = "done"
    /\ Len(jamaah) >= 1
    /\ \E k \in 1..Len(scene) :
          /\ scene[k].score = 95
          /\ scene[k].bbox = BoxArea
          /\ ~InOutput(scene[k])
    /\ video = <<640, 480>>

\* C4: no detection with width > 200 and width/height > 1.8 is in the output.
C4_NoLargeElongated ==
    OutputReady => \A i \in Positions : ~LargeElongated(jamaah[i])

\* C4's case: the best-scoring candidate that passed Stage 1 is large and
\* elongated, and the output leaves it out.
C4_Witness ==
    /\ pc = "done"
    /\ LET kept == SortByScore(Stage1Filter(scene, video))
       IN /\ Len(kept) >= 2
          /\ LargeElongated(kept[1])
          /\ PassesStage1(kept[1], video)
          /\ ~InOutput(kept[1])
          /\ Len(jamaah) >= 1

\* C5: the output is in descending order of score.
C5_SortedByScore ==
    OutputReady =>
        \A i, j \in Positions : i < j => jamaah[i].score >= jamaah[j].score

\* C5's case: the raw list is in ascending order of score and the output, of
\* two detections of different scores, is not.
C5_Witness ==
    /\ pc = "done"
    /\ Len(jamaah) >= 2
    /\ jamaah[1].score > jamaah[2].score
    /\ \E a, b \in 1..Len(scene) :
          a < b /\ scene[a] = jamaah[2] /\ scene[b] = jamaah[1]

\* A box with a width or a height that is zero or negative.
Malformed(d) == d.bbox[3] <= 0 \/ d.bbox[4] <= 0

WellFormedOf(raw) == SelectSeq(raw, LAMBDA d : ~Malformed(d))

\* C6: malformed geometry never sends the invocation to the catch block (the
\* catch block is entered only when the awaited call rejects, before any
\* prediction is read); no malformed box is in the output; and the output is
\* what the well-formed detections of the batch give on their own.
C6_MalformedExcluded ==
    /\ pc = "error" => predictions = <<>> /\ jamaah = <<>>
    /\ OutputReady =>
          /\ \A i \in Positions : ~Malformed(jamaah[i])
          /\ jamaah = PostProcess(WellFormedOf(scene), video)

\* C6's case: a batch with a negative-size box and a well-formed person; the
\* invocation is done and the output is the person alone.
C6_Witness ==
    /\ pc = "done"
    /\ \E k \in 1..Len(scene) : scene[k].bbox = BoxNeg
    /\ \E k \in 1..Len(scene) : scene[k].bbox = BoxZeroH
    /\ Len(jamaah) = 1
    /\ jamaahCount = 1

InFlight == {n \in 1..MaxCycles : cycles[n].status = "inflight"}
Started == {n \in 1..MaxCycles : cycles[n].status # "none"}

OutputOf(n) == PostProcess(cycles[n].predictions, video)

\* C2: at no time are two invocations of detectObjects in flight.
C2_OneInvocationAtATime == Cardinality(InFlight) <= 1

\* C7: when an invocation completes without error in the mounted component,
\* jamaahCount becomes the length of the output it computed for its frame and
\* the canvas holds that output's boxes numbered 1..len(output) in order.
C7_CountAndRanks ==
    [][\A n \in 1..MaxCycles :
          (mounted /\ cycles[n].status = "inflight" /\ cycles'[n].status = "done") =>
              /\ jamaahCount' = Len(OutputOf(n))
              /\ Len(canvas') = Len(OutputOf(n))
              /\ \A i \in 1..Len(OutputOf(n)) :
                    /\ canvas'[i].jamaahNumber = i
                    /\ canvas'[i].bbox = OutputOf(n)[i].bbox]_vars

\* C7's case: an invocation whose frame held two persons has completed; the
\* count is 2 and the boxes drawn are numbered 1 and 2.
C7_Witness ==
    /\ mounted
    /\ \E n \in 1..MaxCycles : cycles[n].status = "done"
    /\ jamaahCount = 2
    /\ Len(canvas) = 2
    /\ canvas[1].jamaahNumber = 1 /\ canvas[1].bbox = BoxC
    /\ canvas[2].jamaahNumber = 2 /\ canvas[2].bbox = BoxA

\* C9: while the component is mounted and no timer is held (stopDetection has
\* run and startDetection has not since, or detection never started), the
\* count is 0, isDetecting is false and the canvas is clear.
C9_StoppedStaysStopped ==
    (mounted /\ detectionIntervalRef = 0) =>
        jamaahCount = 0 /\ ~isDetecting /\ canvas = <<>>

\* C10: the count is never overwritten by an older frame: when invocation A
\* completes after an invocation B started later than A has completed, the
\* count stays what it was.
C10_NewestResultShown ==
    [][\A a, b \in 1..MaxCycles :
          ( /\ a < b
            /\ mounted
            /\ cycles[b].status = "done"
            /\ cycles[a].status = "inflight"
            /\ cycles'[a].status = "done" )
          => jamaahCount' = jamaahCount]_vars

\* The timer detectionIntervalRef holds is the only one registered.
OnlyHeldTimer ==
    /\ Cardinality(timers) <= 1
    /\ timers = IF detectionIntervalRef = 0 THEN {} ELSE {detectionIntervalRef}

\* A step in which stopDetection runs: the Stop button (the only step that
\* turns isDetecting off) or the unmount cleanup.
StopRuns == (isDetecting /\ ~isDetecting') \/ (mounted /\ ~mounted')

\* C11: at most one interval timer is registered at any time, and it is the
\* one detectionIntervalRef holds, so startDetection with a timer active adds
\* none; after stopDetection no timer is registered and the ref is null.
C11_AtMostOneTimer ==
    /\ []OnlyHeldTimer
    /\ [][StopRuns => (timers' = {} /\ detectionIntervalRef' = 0)]_vars

\* C11's case: detection was started, stopped and started again, through the
\* stream-ready callback and the Start button; the second timer is the only
\* one registered.
C11_Witness ==
    /\ mounted
    /\ playing
    /\ starts = 2
    /\ detectionIntervalRef = 2
    /\ timers = {2}
    /\ isDetecting

====
